---- MODULE Spec2Model ----
(***************************************************************************)
(* Model of the netlist synthesis engine of src/src/lib.rs: Entity / Arch  *)
(* data, Configuration::get_arch and get_conf, Ngspice::get_dialect,       *)
(* spice_definition / spice_reference and CodeArch, as a state machine     *)
(* with an explicit call stack for the recursive descent.                  *)
(*                                                                         *)
(* A String is a sequence of atoms (concatenation is \o), an Option is a   *)
(* sequence of length at most one, a HashMap that the code iterates is a   *)
(* sequence of <<key, value>> pairs in its iteration order, and an         *)
(* IndexSet is a duplicate-free sequence in insertion order.               *)
(***************************************************************************)
EXTENDS Integers, Sequences, FiniteSets, TLC

\* How many times the caller invokes definition() on the root Configuration.
MaxRuns == 2
\* Frames of spice_definition the call stack holds before it overflows.
StackLimit == 5

VARIABLES
    tbl,        \* the dialect names in the nmos entity's CodeDialectArch
    archOrder,  \* iteration order of every Entity.archs HashMap
    instOrder,  \* iteration order of every Schematic.instances HashMap
    confs,      \* the Configuration tree: path of instance names -> Configuration
    created,    \* path -> how many times get_conf constructed a Configuration there
    stack,      \* frames of spice_definition, innermost last
    ret,        \* Option<Result>: the value a callee just returned to the top frame
    result,     \* Option<Result>: what the last finished root definition() returned
    runs,       \* number of root definition() calls started
    lastRef,    \* Option: arguments and Result of the last root reference() call
    crashed,    \* TRUE once the call stack has overflowed (the process aborted)
    borrowed,   \* paths of the Configurations whose for_inst has a live Ref
    panicked    \* TRUE once a borrow_mut met a live Ref (BorrowMutError)

vars == <<tbl, archOrder, instOrder, confs, created, stack, ret, result, runs,
          lastRef, crashed, borrowed, panicked>>

None == <<>>
Some(x) == <<x>>

----------------------------------------------------------------------------
\* Sequences, HashMap and IndexSet helpers

Range(s) == {s[i] : i \in 1..Len(s)}

Reverse(s) == [i \in 1..Len(s) |-> s[Len(s) + 1 - i]]

RECURSIVE Concat(_)
Concat(ss) == IF ss = <<>> THEN <<>> ELSE Head(ss) \o Concat(Tail(ss))

Keys(m) == {m[i][1] : i \in 1..Len(m)}

\* HashMap::get
Get(m, k) ==
    IF k \in Keys(m)
    THEN Some(m[CHOOSE i \in 1..Len(m) : m[i][1] = k][2])
    ELSE None

\* the order in which a HashMap built from the pairs m is iterated
Iter(m, ord) == IF ord = "fwd" THEN m ELSE Reverse(m)

\* insert into a plain vector: no test for an equal element
Push(set, d) == Append(set, d)

\* IndexSet::insert
Insert(set, d) == IF d \in Range(set) THEN set ELSE Append(set, d)

\* IndexSet::extend
RECURSIVE Extend(_, _)
Extend(set, ds) ==
    IF ds = <<>> THEN set ELSE Extend(Insert(set, Head(ds)), Tail(ds))

----------------------------------------------------------------------------
\* CodeError and Result

DialectError == [kind |-> "DialectError", msg |-> <<>>]
CompileError(msg) == [kind |-> "CompileError", msg |-> msg]
TemplateError == [kind |-> "TemplateError", msg |-> <<>>]
NoError == [kind |-> "", msg |-> <<>>]

\* Result<T, CodeError>; val is the IndexSet of definition() or the String
\* of reference()
Ok(v) == [ok |-> TRUE, val |-> v, err |-> NoError]
Err(e) == [ok |-> FALSE, val |-> <<>>, err |-> e]

----------------------------------------------------------------------------
\* Definition

DefCode(text) == [kind |-> "Code", text |-> text]
DefLibrary(path) == [kind |-> "Library", text |-> path]
DefPrimitive == [kind |-> "Primitive", text |-> <<>>]

\* a PathBuf that is not valid Unicode
NonUtf8Path == <<"models", "\\xFF", ".lib">>

\* Path::to_str
ToStr(path) == IF "\\xFF" \in Range(path) THEN None ELSE Some(path)

\* Path::to_string_lossy
ToStringLossy(path) ==
    [i \in 1..Len(path) |-> IF path[i] = "\\xFF" THEN "U+FFFD" ELSE path[i]]

----------------------------------------------------------------------------
\* CodeArch: a Definition and a Handlebars reference template

Lit(s) == [t |-> "lit", k |-> s]
TName == [t |-> "name", k |-> ""]
TPort(k) == [t |-> "port", k |-> k]
TGeneric(k) == [t |-> "generic", k |-> k]

Template(toks) == [malformed |-> FALSE, toks |-> toks]
\* a template Handlebars cannot parse, such as "{{name"
MalformedTemplate == [malformed |-> TRUE, toks |-> <<>>]

CodeArch(definition, reference) ==
    [definition |-> definition, reference |-> reference]

\* the escape function Handlebars applies to the value of every {{..}}
\* expression: text free of HTML characters stays as it is
html_escape(v) == IF v = "<a>" THEN "&lt;a&gt;" ELSE v

\* RenderToken looking every key up in the port map
RenderToken_ports(tok, name, genericmap, portmap) ==
    CASE tok.t = "lit" -> tok.k
      [] tok.t = "name" -> html_escape(name)
      [] OTHER ->
            IF Get(portmap, tok.k) = None THEN ""
            ELSE html_escape(Get(portmap, tok.k)[1])

\* One template token rendered against RefArgs {name, generic, port}.
\* Handlebars::new() is not in strict mode: a field that is missing from the
\* data renders as the empty string.
RenderToken(tok, name, genericmap, portmap) ==
    CASE tok.t = "lit" -> tok.k
      [] tok.t = "name" -> html_escape(name)
      [] tok.t = "port" ->
            IF Get(portmap, tok.k) = None THEN ""
            ELSE html_escape(Get(portmap, tok.k)[1])
      [] OTHER ->
            IF Get(genericmap, tok.k) = None THEN ""
            ELSE html_escape(Get(genericmap, tok.k)[1])

\* impl Code for CodeArch
CodeArch_definition(ca) == Ok(<<ca.definition>>)

CodeArch_reference(ca, name, genericmap, portmap) ==
    IF ca.reference.malformed
    THEN Err(TemplateError)
    ELSE Ok([i \in 1..Len(ca.reference.toks) |->
                RenderToken(ca.reference.toks[i], name, genericmap, portmap)])

----------------------------------------------------------------------------
\* Entity, Arch, Schematic, Instance (data).  An Rc<Entity> is the entity's
\* name; the layout coordinates x, y of an Instance are never read.

ArchCode(dialects) ==
    [kind |-> "Code", dialects |-> dialects, toplevel |-> FALSE, instances |-> <<>>]
ArchSchematic(toplevel, instances) ==
    [kind |-> "Schematic", dialects |-> <<>>, toplevel |-> toplevel,
     instances |-> instances]

Instance(entity, portmap, genericmap) ==
    [entity |-> entity, portmap |-> portmap, genericmap |-> genericmap]

MosTemplate(model) ==
    Template(<<Lit("m"), TName, Lit(" "), TPort("d"), Lit(" "), TPort("g"),
               Lit(" "), Lit(model), Lit(" W="), TGeneric("w")>>)

\* the CodeArch the nmos entity stores under dialect d; its "ngspice" entry
\* carries a template that does not parse
NmosCode(d) ==
    CodeArch(DefCode(<<".model NMOS ", d>>),
             IF d = "ngspice" THEN MalformedTemplate ELSE MosTemplate("NMOS"))

DialectNames == <<"ngspice", "spice", "xyce">>

NmosDialects(names) ==
    LET ds == SelectSeq(DialectNames, LAMBDA d : d \in names)
    IN  [i \in 1..Len(ds) |-> <<ds[i], NmosCode(ds[i])>>]

InvSchematic ==
    ArchSchematic(FALSE,
        << <<"mp", Instance("pmos", << <<"g", "in">>, <<"d", "out">> >>,
                                    << <<"w", "1u">> >>)>>,
           <<"mn", Instance("nmos", << <<"g", "in">>, <<"d", "out">> >>,
                                    << <<"w", "2u">> >>)>> >>)

\* the inverter's code architecture: written for xyce when the design's
\* transistor models are, for ngspice otherwise
InvCode(names) ==
    ArchCode(<< <<IF "xyce" \in names THEN "xyce" ELSE "ngspice",
                  CodeArch(DefCode(<<".model INV">>),
                           Template(<<Lit("a"), TName, Lit(" "), TPort("in"),
                                      Lit(" "), TPort("out"), Lit(" INV m="),
                                      TGeneric("m")>>))>> >>)

\* The design: the Entity of each name (after tests::circuit and
\* examples/sim.rs circuit()).  names is the nmos dialect table's key set.
Entity(e, names) ==
    CASE e = "pmos" ->
            [name |-> "pmos", generic |-> <<"w">>, port |-> <<"g", "d">>,
             archs |-> << <<"rtl", ArchCode(<< <<"spice",
                            CodeArch(DefCode(<<".model PMOS">>),
                                     MosTemplate("PMOS"))>> >>)>> >>]
      [] e = "nmos" ->
            [name |-> "nmos", generic |-> <<"w">>, port |-> <<"g", "d">>,
             archs |-> << <<"rtl", ArchCode(NmosDialects(names))>> >>]
      [] e = "voltage" ->
            [name |-> "voltage", generic |-> <<"dc", "tran">>,
             port |-> <<"p", "n">>,
             archs |-> << <<"rtl", ArchCode(<< <<"spice",
                            CodeArch(DefPrimitive,
                                     Template(<<Lit("v"), TName, Lit(" "),
                                                TPort("p"), Lit(" "), TPort("n"),
                                                Lit(" "), TGeneric("dc"), Lit(" "),
                                                TGeneric("tran")>>))>> >>)>> >>]
      [] e = "cells" ->
            [name |-> "cells", generic |-> <<>>, port |-> <<>>,
             archs |-> << <<"rtl", ArchCode(<< <<"spice",
                            CodeArch(DefLibrary(<<"cells", ".lib">>),
                                     Template(<<Lit("* "), TName>>))>> >>)>> >>]
      [] e = "badlib" ->
            [name |-> "badlib", generic |-> <<>>, port |-> <<>>,
             archs |-> << <<"rtl", ArchCode(<< <<"spice",
                            CodeArch(DefLibrary(NonUtf8Path),
                                     Template(<<Lit("* "), TName>>))>> >>)>> >>]
      [] e = "inverter" ->
            [name |-> "inverter", generic |-> <<"m">>, port |-> <<"in", "out">>,
             archs |-> << <<"rtl", InvCode(names)>>, <<"sch", InvSchematic>> >>]
      [] e = "buffer" ->
            [name |-> "buffer", generic |-> <<>>, port |-> <<"in", "out">>,
             archs |-> << <<"sch", ArchSchematic(FALSE,
                << <<"inv1", Instance("inverter",
                        << <<"in", "in">>, <<"out", "mid">> >>, << <<"m", "1">> >>)>>,
                   <<"inv2", Instance("inverter",
                        << <<"out", "out">>, <<"in", "mid">> >>, << <<"m", "1">> >>)>>
                >>)>> >>]
      [] e = "bad" ->
            \* ip binds no net to port out, ig gives no value to generic m
            [name |-> "bad", generic |-> <<>>, port |-> <<"in", "out">>,
             archs |-> << <<"sch", ArchSchematic(FALSE,
                << <<"ip", Instance("inverter",
                        << <<"in", "in">> >>, << <<"m", "1">> >>)>>,
                   <<"ig", Instance("inverter",
                        << <<"in", "in">>, <<"out", "out">> >>, <<>>)>>
                >>)>> >>]
      [] e = "tb" ->
            [name |-> "tb", generic |-> <<>>, port |-> <<>>,
             archs |-> << <<"sch", ArchSchematic(TRUE,
                << <<"buf", Instance("buffer",
                        << <<"in", "in">>, <<"out", "out">> >>, <<>>)>>,
                   <<"supply", Instance("voltage",
                        << <<"p", "vdd">>, <<"n", "gnd">> >>, << <<"dc", "5">> >>)>>,
                   <<"lib", Instance("cells", <<>>, <<>>)>>
                >>)>> >>]
      [] e = "tb2" ->
            [name |-> "tb2", generic |-> <<>>, port |-> <<>>,
             archs |-> << <<"sch", ArchSchematic(TRUE,
                << <<"supply", Instance("voltage",
                        << <<"p", "vdd">>, <<"n", "gnd">> >>, << <<"dc", "5">> >>)>>,
                   <<"lib", Instance("badlib", <<>>, <<>>)>>
                >>)>> >>]
      [] OTHER ->
            \* an entity whose schematic instantiates the entity itself
            [name |-> "ring", generic |-> <<>>, port |-> <<"a">>,
             archs |-> << <<"sch", ArchSchematic(FALSE,
                << <<"self", Instance("ring", << <<"a", "a">> >>, <<>>)>> >>)>> >>]

EntityNames ==
    {"pmos", "nmos", "voltage", "cells", "badlib", "inverter", "buffer", "bad",
     "tb", "tb2", "ring"}

Ent(e) == Entity(e, tbl)

----------------------------------------------------------------------------
\* Ngspice (the one Simulator)

\* get_dialect with the preference reversed: "spice" before "ngspice"
get_dialect_generic_first(cda) ==
    IF Get(cda.dialects, "spice") # None
    THEN Get(cda.dialects, "spice")
    ELSE Get(cda.dialects, "ngspice")

\* Ngspice::get_dialect
get_dialect(cda) ==
    IF Get(cda.dialects, "ngspice") # None
    THEN Get(cda.dialects, "ngspice")
    ELSE Get(cda.dialects, "spice")

----------------------------------------------------------------------------
\* Configuration

Configuration(ent, arch, all) ==
    [sim |-> "Ngspice", ent |-> ent, arch |-> arch, all |-> all]

\* the scan without the dialect test: the first architecture of the map
FirstStored(archs) ==
    IF archs = <<>> THEN None ELSE Some(Head(archs)[2])

\* the scan of get_arch: the first architecture, in the map's iteration
\* order, that is a Schematic or a Code whose dialect the simulator has
RECURSIVE FirstSupported(_)
FirstSupported(archs) ==
    IF archs = <<>> THEN None
    ELSE LET arch == Head(archs)[2]
         IN  IF arch.kind = "Schematic" \/ get_dialect(arch) # None
             THEN Some(arch)
             ELSE FirstSupported(Tail(archs))

\* get_arch consulting the override map before the explicit name
get_arch_override_first(conf) ==
    IF Get(conf.all, Ent(conf.ent).name) # None
    THEN Get(Ent(conf.ent).archs, Get(conf.all, Ent(conf.ent).name)[1])
    ELSE IF conf.arch # None
    THEN Get(Ent(conf.ent).archs, conf.arch[1])
    ELSE FirstSupported(Iter(Ent(conf.ent).archs, archOrder))

\* get_arch falling back to the scan when a named architecture is absent
get_arch_fallback(conf) ==
    IF conf.arch # None /\ Get(Ent(conf.ent).archs, conf.arch[1]) # None
    THEN Get(Ent(conf.ent).archs, conf.arch[1])
    ELSE IF /\ conf.arch = None
            /\ Get(conf.all, Ent(conf.ent).name) # None
            /\ Get(Ent(conf.ent).archs, Get(conf.all, Ent(conf.ent).name)[1]) # None
    THEN Get(Ent(conf.ent).archs, Get(conf.all, Ent(conf.ent).name)[1])
    ELSE FirstSupported(Iter(Ent(conf.ent).archs, archOrder))

\* Configuration::get_arch
get_arch(conf) ==
    IF conf.arch # None
    THEN Get(Ent(conf.ent).archs, conf.arch[1])
    ELSE IF Get(conf.all, Ent(conf.ent).name) # None
    THEN Get(Ent(conf.ent).archs, Get(conf.all, Ent(conf.ent).name)[1])
    ELSE FirstSupported(Iter(Ent(conf.ent).archs, archOrder))

\* the port loop running over the port map's own iteration order
PortNets_stored(ports, portmap, name) ==
    Ok(Concat([i \in 1..Len(portmap) |-> <<" ", portmap[i][2]>>]))

\* the port loop with unwrap_or_default() in place of ok_or(..)?
RECURSIVE PortNets_default(_, _, _)
PortNets_default(ports, portmap, name) ==
    IF ports = <<>> THEN Ok(<<>>)
    ELSE LET rest == PortNets_default(Tail(ports), portmap, name)
         IN  Ok(<<" ", IF Get(portmap, Head(ports)) = None THEN ""
                       ELSE Get(portmap, Head(ports))[1]>> \o rest.val)

\* the loop of spice_reference over the declared ports
RECURSIVE PortNets(_, _, _)
PortNets(ports, portmap, name) ==
    IF ports = <<>> THEN Ok(<<>>)
    ELSE IF Get(portmap, Head(ports)) = None
    THEN Err(CompileError(<<"no ", Head(ports), " in ", name>>))
    ELSE LET rest == PortNets(Tail(ports), portmap, name)
         IN  IF rest.ok
             THEN Ok(<<" ", Get(portmap, Head(ports))[1]>> \o rest.val)
             ELSE rest

\* the loop of spice_reference over the declared generics
RECURSIVE GenericValues(_, _)
GenericValues(generics, genericmap) ==
    IF generics = <<>> THEN Ok(<<>>)
    ELSE IF Get(genericmap, Head(generics)) = None
    THEN Err(CompileError(<<Head(generics)>>))
    ELSE LET rest == GenericValues(Tail(generics), genericmap)
         IN  IF rest.ok
             THEN Ok(<<" ", Head(generics), "=",
                       Get(genericmap, Head(generics))[1]>> \o rest.val)
             ELSE rest

\* spice_reference (Ngspice::synthesize_reference)
spice_reference(conf, name, genericmap, portmap) ==
    LET nets == PortNets(Ent(conf.ent).port, portmap, name)
        gens == GenericValues(Ent(conf.ent).generic, genericmap)
    IN  IF ~nets.ok THEN nets
        ELSE IF ~gens.ok THEN gens
        ELSE Ok(<<"x", name>> \o nets.val \o <<" ", Ent(conf.ent).name>> \o gens.val)

\* Configuration::reference
Configuration_reference(conf, name, genericmap, portmap) ==
    LET arch == get_arch(conf)
    IN  IF arch = None THEN Err(DialectError)
        ELSE IF arch[1].kind = "Code"
        THEN IF get_dialect(arch[1]) = None
             THEN Err(DialectError)
             ELSE CodeArch_reference(get_dialect(arch[1])[1], name, genericmap, portmap)
        ELSE spice_reference(conf, name, genericmap, portmap)

\* get_conf with insert in place of entry().or_insert_with(): a default
\* Configuration replaces the entry, and with it the entry's own cache
get_conf_insert(cache, path, name, inst) ==
    LET child == Append(path, name)
        kept == {p \in DOMAIN cache :
                    ~(Len(p) >= Len(child) /\ SubSeq(p, 1, Len(child)) = child)}
    IN  [cache |-> (child :>
                        [sim |-> cache[path].sim, ent |-> inst.entity,
                         arch |-> None, all |-> cache[path].all])
                   @@ [p \in kept |-> cache[p]],
         fresh |-> TRUE]

\* get_conf resetting the architecture choice of an entry it finds
get_conf_reset(cache, path, name, inst) ==
    IF Append(path, name) \in DOMAIN cache
    THEN [cache |-> [cache EXCEPT ![Append(path, name)].arch = None],
          fresh |-> FALSE]
    ELSE [cache |-> (Append(path, name) :>
                        [sim |-> cache[path].sim, ent |-> inst.entity,
                         arch |-> None, all |-> cache[path].all]) @@ cache,
          fresh |-> TRUE]

\* get_conf building the default Configuration with an empty override
\* map instead of a clone of the parent's
get_conf_bare(cache, path, name, inst) ==
    IF Append(path, name) \in DOMAIN cache
    THEN [cache |-> cache, fresh |-> FALSE]
    ELSE [cache |-> (Append(path, name) :>
                        [sim |-> cache[path].sim, ent |-> inst.entity,
                         arch |-> None, all |-> <<>>]) @@ cache,
          fresh |-> TRUE]

\* Configuration::get_conf(name, inst) on the Configuration at path.  A
\* for_inst entry of the Configuration at path is the Configuration at
\* Append(path, name); fresh tells whether the or_insert_with closure ran.
get_conf(cache, path, name, inst) ==
    IF Append(path, name) \in DOMAIN cache
    THEN [cache |-> cache, fresh |-> FALSE]
    ELSE [cache |-> (Append(path, name) :>
                        [sim |-> cache[path].sim, ent |-> inst.entity,
                         arch |-> None, all |-> cache[path].all]) @@ cache,
          fresh |-> TRUE]

\* the construction counts after a get_conf that returned r
Count(count, child, r) ==
    IF ~r.fresh THEN count
    ELSE IF child \in DOMAIN count
    THEN [count EXCEPT ![child] = @ + 1]
    ELSE (child :> 1) @@ count

----------------------------------------------------------------------------
\* spice_definition, one frame of the call stack per activation

Frame(path, sch) ==
    [path |-> path, sch |-> sch, pc |-> "defs", i |-> 1, defs |-> <<>>,
     res |-> <<>>]

Top == stack[Len(stack)]
Below == SubSeq(stack, 1, Len(stack) - 1)
SetTop(f) == [stack EXCEPT ![Len(stack)] = f]

\* the instance the loop of frame f is at: <<name, Instance>>
Current(f) == Iter(f.sch.instances, instOrder)[f.i]
InLoop(f) == f.i <= Len(f.sch.instances)

\* Configuration::definition up to the call of synthesize_definition: the
\* Result when it returns at once, None when it descends into a Schematic
Configuration_definition(conf) ==
    LET arch == get_arch(conf)
    IN  IF arch = None THEN Some(Err(DialectError))
        ELSE IF arch[1].kind = "Code"
        THEN IF get_dialect(arch[1]) = None
             THEN Some(Err(DialectError))
             ELSE Some(CodeArch_definition(get_dialect(arch[1])[1]))
        ELSE None

\* the text one collected Definition contributes to a toplevel block
RenderDefinition(def) ==
    CASE def.kind = "Code" -> Ok(def.text \o <<"\n">>)
      [] def.kind = "Library" ->
            IF ToStr(def.text) = None
            THEN Err(CompileError(ToStringLossy(def.text)))
            ELSE Ok(<<".lib ">> \o ToStr(def.text)[1] \o <<"\n">>)
      [] OTHER -> Ok(<<"\n">>)

\* the loop of spice_definition over sub_defs
RECURSIVE RenderDefinitions(_)
RenderDefinitions(defs) ==
    IF defs = <<>> THEN Ok(<<>>)
    ELSE LET first == RenderDefinition(Head(defs))
         IN  IF ~first.ok THEN first
             ELSE LET rest == RenderDefinitions(Tail(defs))
                  IN  IF rest.ok THEN Ok(first.val \o rest.val) ELSE rest

\* the port loop pushing each port in front of the ones before it
RECURSIVE PortList_reversed(_)
PortList_reversed(ports) ==
    IF ports = <<>> THEN <<>>
    ELSE PortList_reversed(Tail(ports)) \o <<" ", Head(ports)>>

\* " p1 p2 ..." of the .subckt header
RECURSIVE PortList(_)
PortList(ports) ==
    IF ports = <<>> THEN <<>> ELSE <<" ", Head(ports)>> \o PortList(Tail(ports))

----------------------------------------------------------------------------
\* The state machine

Tables == {{"spice"}, {"ngspice", "spice"}, {"xyce"}, {"spice", "xyce"}}
Orders == {"fwd", "rev"}
Roots == {"tb", "tb2", "buffer", "bad", "inverter", "nmos", "ring"}
ArchChoices == {None, Some("sch"), Some("rtl"), Some("zz")}
AllChoices ==
    {<<>>, << <<"inverter", "rtl">> >>, << <<"inverter", "zz">> >>}

\* the caches a caller may hand over: empty, or with a Configuration for
\* instance inv1 that names its architecture
Prepared(root) ==
    {(<<>> :> root),
     (<<>> :> root) @@
        (<<"inv1">> :> Configuration("inverter", Some("rtl"), <<>>))}

\* the arguments of the caller's own reference() calls
RefNames == {"x1"}
RefPortMaps ==
    {<< <<"in", "a">>, <<"out", "b">> >>, << <<"out", "b">>, <<"in", "a">> >>,
     << <<"in", "<a>">> >>, <<>>}
RefGenericMaps == {<< <<"m", "2">> >>, <<>>}

Init ==
    /\ tbl \in Tables
    /\ archOrder \in Orders
    /\ instOrder \in Orders
    /\ \E e \in Roots, a \in ArchChoices, all \in AllChoices :
          confs \in Prepared(Configuration(e, a, all))
    /\ created = <<>>
    /\ stack = <<>>
    /\ ret = None
    /\ result = None
    /\ runs = 0
    /\ lastRef = None
    /\ crashed = FALSE
    /\ borrowed = {}
    /\ panicked = FALSE

Idle == stack = <<>> /\ ret = None /\ ~crashed /\ ~panicked

\* the caller invokes definition() on the root Configuration
CallDefinition ==
    /\ Idle
    /\ runs < MaxRuns
    /\ runs' = runs + 1
    /\ result' = None
    /\ lastRef' = None
    /\ IF Configuration_definition(confs[<<>>]) = None
       THEN /\ stack' = <<Frame(<<>>, get_arch(confs[<<>>])[1])>>
            /\ ret' = None
       ELSE /\ stack' = <<>>
            /\ ret' = Configuration_definition(confs[<<>>])
    /\ UNCHANGED <<tbl, archOrder, instOrder, confs, created, crashed, borrowed,
                   panicked>>

\* the caller invokes reference() on the root Configuration
CallReference ==
    /\ Idle
    /\ \E name \in RefNames, gm \in RefGenericMaps, pm \in RefPortMaps :
          lastRef' = Some([name |-> name, genericmap |-> gm, portmap |-> pm,
                           res |-> Configuration_reference(confs[<<>>], name, gm, pm)])
    /\ UNCHANGED <<tbl, archOrder, instOrder, confs, created, stack, ret, result,
                   runs, crashed, borrowed, panicked>>

\* the root definition() returns to the caller
ReturnToCaller ==
    /\ stack = <<>>
    /\ ret # None
    /\ result' = ret
    /\ ret' = None
    /\ UNCHANGED <<tbl, archOrder, instOrder, confs, created, stack, runs,
                   lastRef, crashed, borrowed, panicked>>

\* one iteration of the first loop of spice_definition, up to the call:
\* get_conf, then subconf.definition(), which returns at once or descends.
\* get_conf takes for_inst.borrow_mut(), which panics when a Ref into the
\* same cache is alive; the Ref it returns lives until the iteration ends.
VisitInstance ==
    /\ ~crashed
    /\ ~panicked
    /\ stack # <<>>
    /\ ret = None
    /\ Top.pc = "defs"
    /\ InLoop(Top)
    /\ IF Top.path \in borrowed
       THEN /\ panicked' = TRUE
            /\ UNCHANGED <<confs, created, stack, ret, crashed, borrowed>>
       ELSE
       LET name == Current(Top)[1]
           inst == Current(Top)[2]
           child == Append(Top.path, name)
           got == get_conf(confs, Top.path, name, inst)
           now == Configuration_definition(got.cache[child])
       IN  /\ confs' = got.cache
           /\ created' = Count(created, child, got)
           /\ borrowed' = borrowed \cup {Top.path}
           /\ panicked' = FALSE
           /\ IF now # None
              THEN /\ stack' = SetTop([Top EXCEPT !.pc = "call"])
                   /\ ret' = now
                   /\ crashed' = FALSE
              ELSE IF Len(stack) < StackLimit
              THEN /\ stack' = Append(SetTop([Top EXCEPT !.pc = "call"]),
                                      Frame(child, get_arch(got.cache[child])[1]))
                   /\ ret' = None
                   /\ crashed' = FALSE
              ELSE \* the call stack overflows: the process aborts
                   /\ stack' = SetTop([Top EXCEPT !.pc = "call"])
                   /\ ret' = None
                   /\ crashed' = TRUE
    /\ UNCHANGED <<tbl, archOrder, instOrder, result, runs, lastRef>>

\* ReceiveDefinitions with the Ref kept alive past the iteration, as when
\* the handles are collected in a vector that outlives the loop
ReceiveDefinitions_leak ==
    /\ stack # <<>>
    /\ ret # None
    /\ Top.pc = "call"
    /\ ret[1].ok
    /\ stack' = SetTop([Top EXCEPT !.pc = "defs", !.i = @ + 1,
                                   !.defs = Extend(@, ret[1].val)])
    /\ ret' = None
    /\ UNCHANGED <<tbl, archOrder, instOrder, confs, created, result, runs,
                   lastRef, crashed, borrowed, panicked>>

\* subconf.definition()? returned Ok: extend the ordered set, drop subconf,
\* next instance
ReceiveDefinitions ==
    /\ stack # <<>>
    /\ ret # None
    /\ Top.pc = "call"
    /\ ret[1].ok
    /\ stack' = SetTop([Top EXCEPT !.pc = "defs", !.i = @ + 1,
                                   !.defs = Extend(@, ret[1].val)])
    /\ ret' = None
    /\ borrowed' = borrowed \ {Top.path}
    /\ UNCHANGED <<tbl, archOrder, instOrder, confs, created, result, runs,
                   lastRef, crashed, panicked>>

\* the first loop with unwrap_or_default() in place of ?: an Err counts
\* as no definitions and the loop goes on
SwallowError ==
    /\ stack # <<>>
    /\ ret # None
    /\ Top.pc = "call"
    /\ ~ret[1].ok
    /\ stack' = SetTop([Top EXCEPT !.pc = "defs", !.i = @ + 1])
    /\ ret' = None
    /\ borrowed' = borrowed \ {Top.path}
    /\ UNCHANGED <<tbl, archOrder, instOrder, confs, created, result, runs,
                   lastRef, crashed, panicked>>

\* subconf.definition()? returned Err: spice_definition returns it, and
\* subconf is dropped on the way out
PropagateError ==
    /\ stack # <<>>
    /\ ret # None
    /\ Top.pc = "call"
    /\ ~ret[1].ok
    /\ stack' = Below
    /\ ret' = ret
    /\ borrowed' = borrowed \ {Top.path}
    /\ UNCHANGED <<tbl, archOrder, instOrder, confs, created, result, runs,
                   lastRef, crashed, panicked>>

\* BeginBlock with one set for sub_defs and defs: the toplevel block joins
\* the definitions it has inlined
BeginBlock_shared ==
    /\ ~crashed
    /\ ~panicked
    /\ stack # <<>>
    /\ ret = None
    /\ Top.pc = "defs"
    /\ ~InLoop(Top)
    /\ LET name == Ent(confs[Top.path].ent).name
           inlined == RenderDefinitions(Top.defs)
       IN  IF ~Top.sch.toplevel
           THEN /\ stack' = SetTop([Top EXCEPT !.pc = "refs", !.i = 1,
                        !.res = <<".subckt ", name>>
                                \o PortList(Ent(confs[Top.path].ent).port)
                                \o <<"\n">>])
                /\ ret' = None
           ELSE IF inlined.ok
           THEN /\ stack' = SetTop([Top EXCEPT !.pc = "refs", !.i = 1,
                        !.res = <<"* ", name, "\n">> \o inlined.val])
                /\ ret' = None
           ELSE /\ stack' = Below
                /\ ret' = Some(inlined)
    /\ UNCHANGED <<tbl, archOrder, instOrder, confs, created, result, runs,
                   lastRef, crashed, borrowed, panicked>>

\* after the first loop: the header of the block; a toplevel block also
\* inlines the collected definitions and starts its own empty set
BeginBlock ==
    /\ ~crashed
    /\ ~panicked
    /\ stack # <<>>
    /\ ret = None
    /\ Top.pc = "defs"
    /\ ~InLoop(Top)
    /\ LET name == Ent(confs[Top.path].ent).name
           inlined == RenderDefinitions(Top.defs)
       IN  IF ~Top.sch.toplevel
           THEN /\ stack' = SetTop([Top EXCEPT !.pc = "refs", !.i = 1,
                        !.res = <<".subckt ", name>>
                                \o PortList(Ent(confs[Top.path].ent).port)
                                \o <<"\n">>])
                /\ ret' = None
           ELSE IF inlined.ok
           THEN /\ stack' = SetTop([Top EXCEPT !.pc = "refs", !.i = 1,
                        !.defs = <<>>,
                        !.res = <<"* ", name, "\n">> \o inlined.val])
                /\ ret' = None
           ELSE /\ stack' = Below
                /\ ret' = Some(inlined)
    /\ UNCHANGED <<tbl, archOrder, instOrder, confs, created, result, runs,
                   lastRef, crashed, borrowed, panicked>>

\* one iteration of the reference loop: get_conf, subconf.reference()?;
\* subconf is dropped when the iteration ends or the error is returned
ReferenceInstance ==
    /\ ~crashed
    /\ ~panicked
    /\ stack # <<>>
    /\ ret = None
    /\ Top.pc = "refs"
    /\ InLoop(Top)
    /\ IF Top.path \in borrowed
       THEN /\ panicked' = TRUE
            /\ UNCHANGED <<confs, created, stack, ret>>
       ELSE
       LET name == Current(Top)[1]
           inst == Current(Top)[2]
           child == Append(Top.path, name)
           got == get_conf(confs, Top.path, name, inst)
           line == Configuration_reference(got.cache[child], name,
                                           inst.genericmap, inst.portmap)
       IN  /\ confs' = got.cache
           /\ created' = Count(created, child, got)
           /\ panicked' = FALSE
           /\ IF line.ok
              THEN /\ stack' = SetTop([Top EXCEPT !.i = @ + 1,
                                        !.res = @ \o line.val \o <<"\n">>])
                   /\ ret' = None
              ELSE /\ stack' = Below
                   /\ ret' = Some(line)
    /\ UNCHANGED <<tbl, archOrder, instOrder, result, runs, lastRef, crashed,
                   borrowed>>

\* after the reference loop: the footer, the block joins the set, Ok(defs)
FinishBlock ==
    /\ ~crashed
    /\ ~panicked
    /\ stack # <<>>
    /\ ret = None
    /\ Top.pc = "refs"
    /\ ~InLoop(Top)
    /\ stack' = Below
    /\ ret' = Some(Ok(Insert(Top.defs,
                  DefCode(Top.res \o
                      (IF Top.sch.toplevel
                       THEN <<".end\n">>
                       ELSE <<".ends ", Ent(confs[Top.path].ent).name>>)))))
    /\ UNCHANGED <<tbl, archOrder, instOrder, confs, created, result, runs,
                   lastRef, crashed, borrowed, panicked>>

Next ==
    \/ CallDefinition
    \/ CallReference
    \/ ReturnToCaller
    \/ VisitInstance
    \/ ReceiveDefinitions
    \/ PropagateError
    \/ BeginBlock
    \/ ReferenceInstance
    \/ FinishBlock

Spec == Init /\ [][Next]_vars

----------------------------------------------------------------------------
\* Properties

Done == Idle /\ result # None
Root == confs[<<>>]

\* the architecture stored under a name in an Entity's map, if any
Stored(e, n) ==
    IF \E i \in 1..Len(Ent(e).archs) : Ent(e).archs[i][1] = n
    THEN {Ent(e).archs[i][2] : i \in {j \in 1..Len(Ent(e).archs) : Ent(e).archs[j][1] = n}}
    ELSE {}

\* the name the override map gives for a Configuration's entity, if any
Override(c) == {c.all[i][2] : i \in {j \in 1..Len(c.all) : c.all[j][1] = Ent(c.ent).name}}

Explicit(c) == c.arch # None
Overridden(c) == c.arch = None /\ Override(c) # {}
Scanned(c) == c.arch = None /\ Override(c) = {}

\* whether the scan accepts an architecture
Qualifies(arch) == arch.kind = "Schematic" \/ get_dialect(arch) # None

\* the set holding what an Option holds
Held(opt) == Range(opt)

\* C1: architecture resolution follows a strict precedence.  For every
\* Configuration of the tree: an explicit architecture name alone decides
\* the resolved architecture; without one, an override-map entry for the
\* entity's name alone decides; only with neither is the result one the
\* scan accepts.  Every frame of the synthesis works on the architecture so
\* resolved.
C1_Precedence ==
    /\ \A p \in DOMAIN confs :
          /\ Explicit(confs[p]) =>
                Held(get_arch(confs[p])) = Stored(confs[p].ent, confs[p].arch[1])
          /\ Overridden(confs[p]) =>
                Held(get_arch(confs[p])) =
                    UNION {Stored(confs[p].ent, n) : n \in Override(confs[p])}
          /\ Scanned(confs[p]) =>
                \A a \in Held(get_arch(confs[p])) : Qualifies(a)
    /\ \A k \in 1..Len(stack) :
          /\ Explicit(confs[stack[k].path]) =>
                {stack[k].sch} =
                    Stored(confs[stack[k].path].ent, confs[stack[k].path].arch[1])
          /\ Overridden(confs[stack[k].path]) =>
                {stack[k].sch} =
                    UNION {Stored(confs[stack[k].path].ent, n) :
                              n \in Override(confs[stack[k].path])}

\* the explicit name wins over an override entry and a supported other
\* architecture, and the synthesis it selects has returned
C1_Witness ==
    /\ Done
    /\ Root.ent = "inverter"
    /\ Root.arch = Some("sch")
    /\ Override(Root) = {"rtl"}
    /\ \A a \in Stored("inverter", "rtl") : Qualifies(a)
    /\ result[1].ok
    /\ Len(result[1].val) = 3

\* a Configuration whose deciding name (the explicit one, else the
\* override map's) is no key of its Entity's architecture map
Unknown(c) ==
    \/ Explicit(c) /\ Stored(c.ent, c.arch[1]) = {}
    \/ Overridden(c) /\ \A n \in Override(c) : Stored(c.ent, n) = {}

\* the Configuration whose definition() the top frame has called
Callee == confs[Append(Top.path, Current(Top)[1])]

\* C2: when the deciding architecture name is not a key of the Entity's
\* architecture map, definition() and reference() return DialectError and
\* nothing is synthesized for that Configuration: the caller's calls on the
\* root, and the definition() call of a schematic on a child.
C2_UnknownNameFails ==
    /\ Unknown(Root) /\ result # None => result = Some(Err(DialectError))
    /\ Unknown(Root) /\ lastRef # None => lastRef[1].res = Err(DialectError)
    /\ \A k \in 1..Len(stack) : ~Unknown(confs[stack[k].path])
    /\ (stack # <<>> /\ ret # None /\ Top.pc = "call" /\ Unknown(Callee))
          => ret = Some(Err(DialectError))

\* an unknown explicit name on an entity that has a Schematic and a code
\* architecture, after definition() and reference() were both called
C2_Witness ==
    /\ Done
    /\ Root.ent = "inverter"
    /\ Root.arch = Some("zz")
    /\ \E a \in Stored("inverter", "rtl") : Qualifies(a)
    /\ result = Some(Err(DialectError))
    /\ lastRef # None
    /\ lastRef[1].res = Err(DialectError)

\* the architectures of a Configuration's entity in their stored order
StoredOrder(c) == Iter(Ent(c.ent).archs, archOrder)

\* the positions of the stored order the scan accepts
Accepted(c) ==
    {i \in 1..Len(StoredOrder(c)) : Qualifies(StoredOrder(c)[i][2])}

\* the first accepted architecture, if any
FirstAccepted(c) ==
    {StoredOrder(c)[i][2] : i \in {j \in Accepted(c) : \A l \in Accepted(c) : j <= l}}

\* C3: with no explicit name and no override entry, the resolved
\* architecture is the first of the stored order that is a Schematic or a
\* code dialect table get_dialect succeeds on, and none if there is none.
\* definition() and reference() both work on it: a frame synthesizes that
\* Schematic, reference() renders through it, and with none to select both
\* return DialectError.
C3_FirstSupported ==
    /\ \A p \in DOMAIN confs :
          Scanned(confs[p]) => Held(get_arch(confs[p])) = FirstAccepted(confs[p])
    /\ \A k \in 1..Len(stack) :
          Scanned(confs[stack[k].path]) =>
              {stack[k].sch} = FirstAccepted(confs[stack[k].path])
    /\ (Scanned(Root) /\ FirstAccepted(Root) = {}) =>
          /\ result # None => result = Some(Err(DialectError))
          /\ lastRef # None => lastRef[1].res = Err(DialectError)
    /\ (Scanned(Root) /\ lastRef # None) =>
          \A a \in FirstAccepted(Root) :
              lastRef[1].res =
                  IF a.kind = "Schematic"
                  THEN spice_reference(Root, lastRef[1].name,
                                       lastRef[1].genericmap, lastRef[1].portmap)
                  ELSE CodeArch_reference(get_dialect(a)[1], lastRef[1].name,
                                          lastRef[1].genericmap, lastRef[1].portmap)
    /\ (Scanned(Root) /\ result # None) =>
          \A a \in FirstAccepted(Root) :
              a.kind = "Code" => result[1] = CodeArch_definition(get_dialect(a)[1])

\* the scan passed over an unsupported code architecture stored first and
\* selected the Schematic; definition() and then reference() succeeded
C3_Witness ==
    /\ Done
    /\ Root.ent = "inverter"
    /\ Scanned(Root)
    /\ archOrder = "fwd"
    /\ ~Qualifies(StoredOrder(Root)[1][2])
    /\ result[1].ok
    /\ lastRef # None
    /\ lastRef[1].res.ok

\* the dialect table of the nmos entity
NmosTable == Ent("nmos").archs[1][2]

\* C4: Ngspice prefers "ngspice", then "spice".  On a table with only
\* "spice" get_dialect returns the "spice" entry, on one with both the
\* "ngspice" entry, on one with neither none; a Configuration on the entity
\* of such a table then gets DialectError from definition() and reference().
C4_DialectFallback ==
    /\ ("spice" \in tbl /\ "ngspice" \notin tbl) =>
          /\ get_dialect(NmosTable) = Some(NmosCode("spice"))
          /\ (Root.ent = "nmos" /\ ~Unknown(Root) /\ result # None) =>
                result = Some(Ok(<<NmosCode("spice").definition>>))
    /\ ("spice" \in tbl /\ "ngspice" \in tbl) =>
          /\ get_dialect(NmosTable) = Some(NmosCode("ngspice"))
          /\ (Root.ent = "nmos" /\ ~Unknown(Root) /\ result # None) =>
                result = Some(Ok(<<NmosCode("ngspice").definition>>))
    /\ ("spice" \notin tbl /\ "ngspice" \notin tbl) =>
          /\ get_dialect(NmosTable) = None
          /\ (Root.ent = "nmos" /\ result # None) =>
                result = Some(Err(DialectError))
          /\ (Root.ent = "nmos" /\ lastRef # None) =>
                lastRef[1].res = Err(DialectError)

\* a Configuration naming the architecture whose table has neither
\* dialect, after definition() and reference() were both called
C4_Witness ==
    /\ Done
    /\ Root.ent = "nmos"
    /\ Root.arch = Some("rtl")
    /\ tbl = {"xyce"}
    /\ result = Some(Err(DialectError))
    /\ lastRef # None
    /\ lastRef[1].res = Err(DialectError)

\* C5: at most one child Configuration is ever constructed per instance
\* name of a parent; an entry of the cache, once present, is never replaced
\* or removed; and from the second synthesis on no Configuration is
\* constructed at all.
C5_Memoized ==
    /\ [](\A p \in DOMAIN created : created[p] <= 1)
    /\ [][/\ \A p \in DOMAIN confs : p \in DOMAIN confs' /\ confs'[p] = confs[p]
          /\ runs >= 2 => created' = created]_vars

\* a second synthesis of the testbench has succeeded, and its five child
\* Configurations were constructed in the first
C5_Witness ==
    /\ Done
    /\ runs = 2
    /\ result[1].ok
    /\ Root.ent = "tb"
    /\ Cardinality(DOMAIN created) = 5
    /\ DOMAIN confs = DOMAIN created \cup {<<>>}

\* d is the subcircuit block of the entity named e
IsBlock(d, e) ==
    d.kind = "Code" /\ Len(d.text) >= 2 /\ d.text[1] = ".subckt " /\ d.text[2] = e

\* the text has a line that starts with the atoms a, b
HasLine(text, a, b) ==
    \E k \in 2..(Len(text) - 1) : text[k - 1] = "\n" /\ text[k] = a /\ text[k + 1] = b

\* the Schematic architectures of an entity
Schematics(e) ==
    {Ent(e).archs[i][2] : i \in {j \in 1..Len(Ent(e).archs) :
                                    Ent(e).archs[j][2].kind = "Schematic"}}

\* the Definitions an entity's code architectures store
CodeDefinitions(e) ==
    UNION {{a[2].dialects[i][2].definition : i \in 1..Len(a[2].dialects)} :
              a \in {b \in Range(Ent(e).archs) : b[2].kind = "Code"}}

NoDuplicate(defs) ==
    \A i, j \in 1..Len(defs) : defs[i] = defs[j] => i = j

\* every block of the collection comes after the definition of each entity
\* its body refers to: the block of an entity referred to by an x line, a
\* stored Definition of an entity referred to through a template
DependencyOrdered(defs) ==
    \A j \in 1..Len(defs) : \A e \in EntityNames :
        IsBlock(defs[j], Ent(e).name) =>
            \A sch \in Schematics(e) : \A inst \in Range(sch.instances) :
                IF HasLine(defs[j].text, "x", inst[1])
                THEN \E i \in 1..(j - 1) : IsBlock(defs[i], Ent(inst[2].entity).name)
                ELSE \E i \in 1..(j - 1) : defs[i] \in CodeDefinitions(inst[2].entity)

\* how often the Definition of the Configuration c is in the collection
Occurrences(defs, c) ==
    Cardinality({i \in 1..Len(defs) :
        IF get_arch(c)[1].kind = "Schematic"
        THEN IsBlock(defs[i], Ent(c.ent).name)
        ELSE defs[i] = get_dialect(get_arch(c)[1])[1].definition})

\* frame f has collected the definitions of all its instances
Collected(f) ==
    \/ f.pc = "defs" /\ ~InLoop(f)
    \/ f.pc = "refs" /\ ~f.sch.toplevel

\* C6: every ordered definition collection of a synthesis (the one a frame
\* is building, the one a definition() call returns) holds no Definition
\* twice and holds every block after the definitions of the entities the
\* block refers to; once a schematic's instances are all collected, the
\* Definition of each instance's entity is in the collection exactly once,
\* however many instances produced it.
C6_DedupOrdered ==
    /\ \A k \in 1..Len(stack) :
          /\ NoDuplicate(stack[k].defs)
          /\ DependencyOrdered(stack[k].defs)
          /\ Collected(stack[k]) =>
                \A inst \in Range(stack[k].sch.instances) :
                    Occurrences(stack[k].defs,
                                confs[Append(stack[k].path, inst[1])]) = 1
    /\ (ret # None /\ ret[1].ok) =>
          NoDuplicate(ret[1].val) /\ DependencyOrdered(ret[1].val)
    /\ (result # None /\ result[1].ok) =>
          NoDuplicate(result[1].val) /\ DependencyOrdered(result[1].val)

\* the buffer's two inverters, each a schematic of the same two transistor
\* models, synthesized into four definitions
C6_Witness ==
    /\ Done
    /\ Root.ent = "buffer"
    /\ result[1].ok
    /\ Len(result[1].val) = 4
    /\ IsBlock(result[1].val[3], "inverter")
    /\ IsBlock(result[1].val[4], "buffer")
    /\ HasLine(result[1].val[4].text, "x", "inv1")
    /\ HasLine(result[1].val[4].text, "x", "inv2")

\* a map as the set of its key-value pairs: its iteration order forgotten
Binding(m) == [k \in Keys(m) |-> (CHOOSE pair \in Range(m) : pair[1] = k)[2]]

\* x<name> <net of each declared port> <entity> <generic>=<value> ...
ReferenceLine(name, ent, nets, values) ==
    <<"x", name>>
    \o Concat([i \in 1..Len(ent.port) |-> <<" ", nets[ent.port[i]]>>])
    \o <<" ", ent.name>>
    \o Concat([i \in 1..Len(ent.generic) |->
                  <<" ", ent.generic[i], "=", values[ent.generic[i]]>>])

\* the Configuration resolves to a Schematic
Synthesized(c) == \E a \in Held(get_arch(c)) : a.kind = "Schematic"

Unbound(declared, m) == SelectSeq(declared, LAMBDA k : k \notin Keys(m))

\* the <<instance name, key>> pairs of a schematic where the instance's
\* maps omit a port or generic its entity declares
Omissions(sch) ==
    UNION {{<<inst[1], k>> : k \in
                Range(Unbound(Ent(inst[2].entity).port, inst[2].portmap)) \cup
                Range(Unbound(Ent(inst[2].entity).generic, inst[2].genericmap))} :
              inst \in Range(sch.instances)}

AtReference == ~crashed /\ stack # <<>> /\ ret = None /\ Top.pc = "refs" /\ InLoop(Top)

\* what reference() returns for a Configuration resolved to a Schematic:
\* the first unbound port decides, else the first unbound generic
OmissionError(c, name, genericmap, portmap) ==
    IF Unbound(Ent(c.ent).port, portmap) # <<>>
    THEN {CompileError(<<"no ", Unbound(Ent(c.ent).port, portmap)[1], " in ", name>>)}
    ELSE IF Unbound(Ent(c.ent).generic, genericmap) # <<>>
    THEN {CompileError(<<Unbound(Ent(c.ent).generic, genericmap)[1]>>)}
    ELSE {}

C9_FirstErrorReturned ==
    [][(ret # None /\ ~ret[1].ok) =>
          /\ confs' = confs
          /\ created' = created
          /\ IF stack = <<>>
             THEN /\ result' = ret
                  /\ result'[1].val = <<>>
                  /\ ret' = None
                  /\ stack' = <<>>
             ELSE /\ ret' = ret
                  /\ stack' = Below
                  /\ result' = None]_vars

\* the TemplateError of a transistor's reference inside an inverter inside
\* the buffer, on its way up with two frames still to leave
C9_Witness ==
    /\ ret = Some(Err(TemplateError))
    /\ Len(stack) = 2
    /\ Root.ent = "tb"

DefinitionLine(d) ==
    (CASE d.kind = "Code" -> d.text
       [] d.kind = "Library" -> <<".lib ">> \o d.text
       [] OTHER -> <<>>) \o <<"\n">>

\* the reference lines of the first n instances of frame f, each rendered
\* by the instance's child Configuration
RefLines(f, n) ==
    Concat([j \in 1..n |->
        Configuration_reference(
            confs[Append(f.path, Iter(f.sch.instances, instOrder)[j][1])],
            Iter(f.sch.instances, instOrder)[j][1],
            Iter(f.sch.instances, instOrder)[j][2].genericmap,
            Iter(f.sch.instances, instOrder)[j][2].portmap).val \o <<"\n">>])

\* the top frame is a toplevel schematic's, at a step of its own
AtToplevel(pc) ==
    ~crashed /\ stack # <<>> /\ ret = None /\ Top.pc = pc /\ Top.sch.toplevel

\* C11: synthesis of a toplevel schematic returns exactly one Definition,
\* however many child definitions it collected.  Its text is built in this
\* order: the comment line "* <entity>", one line per collected child
\* definition (the collection duplicate-free and in dependency order), one
\* reference line per instance, and ".end"; nothing else joins the
\* returned collection.
C11_ToplevelSingleBlock ==
    /\ [](\A a \in Held(get_arch(Root)) :
            (result # None /\ result[1].ok /\ a.kind = "Schematic" /\ a.toplevel) =>
                /\ Len(result[1].val) = 1
                /\ result[1].val[1].kind = "Code"
                /\ SubSeq(result[1].val[1].text, 1, 3) = <<"* ", Ent(Root.ent).name, "\n">>
                /\ LET text == result[1].val[1].text
                       tail == RefLines([path |-> <<>>, sch |-> a], Len(a.instances))
                                  \o <<".end\n">>
                   IN  /\ Len(text) >= 3 + Len(tail)
                       /\ SubSeq(text, Len(text) - Len(tail) + 1, Len(text)) = tail)
    /\ [][/\ (AtToplevel("defs") /\ ~InLoop(Top) /\ Len(stack') = Len(stack)) =>
                /\ NoDuplicate(Top.defs)
                /\ DependencyOrdered(Top.defs)
                /\ stack'[Len(stack)].defs = <<>>
                /\ stack'[Len(stack)].res =
                      <<"* ", Ent(confs[Top.path].ent).name, "\n">>
                      \o Concat([j \in 1..Len(Top.defs) |-> DefinitionLine(Top.defs[j])])
          /\ (AtToplevel("refs") /\ InLoop(Top) /\ Len(stack') = Len(stack)) =>
                /\ stack'[Len(stack)].defs = <<>>
                /\ stack'[Len(stack)].i = Top.i + 1
                /\ stack'[Len(stack)].res = Top.res \o
                      Configuration_reference(
                          confs'[Append(Top.path, Current(Top)[1])], Current(Top)[1],
                          Current(Top)[2].genericmap, Current(Top)[2].portmap).val
                      \o <<"\n">>
          /\ (AtToplevel("refs") /\ ~InLoop(Top)) =>
                ret' = Some(Ok(<<DefCode(Top.res \o <<".end\n">>)>>))]_vars

\* the testbench netlist: the buffer's block among the child definitions
\* inlined, its instances referred to, one Definition returned
C11_Witness ==
    /\ Done
    /\ Root.ent = "tb"
    /\ result[1].ok
    /\ Len(result[1].val) = 1
    /\ HasLine(result[1].val[1].text, ".subckt ", "buffer")
    /\ HasLine(result[1].val[1].text, "x", "buf")
    /\ HasLine(result[1].val[1].text, "v", "supply")
    /\ result[1].val[1].text[Len(result[1].val[1].text)] = ".end\n"

\* what the claim has a collected Definition contribute to a toplevel
\* block: a Code its text, a Library its inclusion directive, a Primitive
\* nothing at all
Contribution(d) ==
    CASE d.kind = "Code" -> d.text \o <<"\n">>
      [] d.kind = "Library" -> <<".lib ">> \o d.text \o <<"\n">>
      [] OTHER -> <<>>

\* the Library definitions of a collection whose path is no valid text
Unrepresentable(defs) ==
    SelectSeq(defs, LAMBDA d : d.kind = "Library" /\ ToStr(d.text) = None)

\* C12 as claimed: when a toplevel block inlines the collected child
\* definitions, a Library whose path cannot be represented as text makes
\* the synthesis return CompileError; otherwise the block's text after the
\* comment line is the text of each Code and the inclusion directive of
\* each Library, in order, and is the same as if the Primitive definitions
\* were not in the collection.
C12_PrimitiveContributesNothing ==
    [][(AtToplevel("defs") /\ ~InLoop(Top)) =>
          IF Unrepresentable(Top.defs) # <<>>
          THEN /\ stack' = Below
               /\ ret' = Some(Err(CompileError(
                              ToStringLossy(Unrepresentable(Top.defs)[1].text))))
          ELSE /\ Len(stack') = Len(stack)
               /\ stack'[Len(stack)].res =
                     <<"* ", Ent(confs[Top.path].ent).name, "\n">>
                     \o Concat([j \in 1..Len(Top.defs) |-> Contribution(Top.defs[j])])]_vars

\* the entry of a dialect table the simulator selects: the one stored
\* under "ngspice", and only without one the one stored under "spice"
Selected(a) ==
    {pair[2] : pair \in {q \in Range(a.dialects) :
        \/ q[1] = "ngspice"
        \/ q[1] = "spice" /\ "ngspice" \notin Keys(a.dialects)}}

\* the value a map binds to a key as the template engine writes it: in
\* escaped form, and empty for a key the map does not bind
Written(m, k) ==
    IF k \in Keys(m)
    THEN IF Binding(m)[k] = "<a>" THEN "&lt;a&gt;" ELSE Binding(m)[k]
    ELSE ""

\* a parsed template with its fields filled in from name, generic and port
Filled(toks, name, genericmap, portmap) ==
    [i \in 1..Len(toks) |->
        IF toks[i].t = "lit" THEN toks[i].k
        ELSE IF toks[i].t = "name" THEN name
        ELSE IF toks[i].t = "port" THEN Written(portmap, toks[i].k)
        ELSE Written(genericmap, toks[i].k)]

\* C13: for a Configuration resolved to a code dialect table, definition()
\* returns the one-element collection of the Definition stored in the entry
\* the simulator selects, unchanged, to the caller and to a schematic that
\* instantiates the entity alike; reference() returns that entry's
\* template with the instance name and the values of the generic map and
\* the port map filled in.
C13_CodeDialect ==
    /\ \A a \in Held(get_arch(Root)) : \A e \in Selected(a) :
          a.kind = "Code" =>
              /\ result # None => result = Some(Ok(<<e.definition>>))
              /\ (lastRef # None /\ ~e.reference.malformed) =>
                    lastRef[1].res =
                        Ok(Filled(e.reference.toks, lastRef[1].name,
                                  lastRef[1].genericmap, lastRef[1].portmap))
    /\ (stack # <<>> /\ ret # None /\ Top.pc = "call") =>
          \A a \in Held(get_arch(Callee)) : \A e \in Selected(a) :
              a.kind = "Code" => ret = Some(Ok(<<e.definition>>))

\* the inverter's code architecture, named explicitly: its Definition
\* returned and its template rendered for instance x1
C13_Witness ==
    /\ Done
    /\ Root.ent = "inverter"
    /\ Root.arch = Some("rtl")
    /\ result = Some(Ok(<<DefCode(<<".model INV">>)>>))
    /\ lastRef # None
    /\ lastRef[1].res =
          Ok(<<"a", "x1", " ", "a", " ", "b", " INV m=", "2">>)

\* the path of the Configuration whose cache holds the one at path p
Parent(p) == SubSeq(p, 1, Len(p) - 1)

\* the entities of the instances named n in the schematic a Configuration
\* resolves to
InstanceEntity(c, n) ==
    UNION {{inst[2].entity : inst \in {q \in Range(a.instances) : q[1] = n}} :
              a \in Held(get_arch(c))}

\* C14: a child Configuration, when get_conf creates it, has the parent's
\* simulator, a copy of the parent's override map, the entity of the
\* instance, no explicit architecture and an empty cache.  Hence with a
\* root cache that was empty every descendant has the root's simulator and
\* override map and no explicit architecture, so that its architecture is
\* the one the override map names or else the first the scan accepts.
C14_ChildInherits ==
    /\ [][\A p \in DOMAIN confs' \ DOMAIN confs :
            /\ p # <<>>
            /\ Parent(p) \in DOMAIN confs
            /\ confs'[p].sim = confs[Parent(p)].sim
            /\ confs'[p].all = confs[Parent(p)].all
            /\ {confs'[p].ent} = InstanceEntity(confs[Parent(p)], p[Len(p)])
            /\ confs'[p].arch = None
            /\ \A q \in DOMAIN confs' : Parent(q) # p]_vars
    /\ [](DOMAIN confs = DOMAIN created \cup {<<>>} =>
            \A p \in DOMAIN confs \ {<<>>} :
                /\ confs[p].sim = Root.sim
                /\ confs[p].all = Root.all
                /\ confs[p].arch = None
                /\ Held(get_arch(confs[p])) =
                      IF Override(confs[p]) # {}
                      THEN UNION {Stored(confs[p].ent, n) : n \in Override(confs[p])}
                      ELSE FirstAccepted(confs[p]))

\* the testbench synthesized under an override map: the inverters two
\* levels down carry the root's map and resolve through it
C14_Witness ==
    /\ Done
    /\ result[1].ok
    /\ Root.ent = "tb"
    /\ Root.all = << <<"inverter", "rtl">> >>
    /\ <<"buf", "inv1">> \in DOMAIN created
    /\ confs[<<"buf", "inv1">>].all = Root.all
    /\ Held(get_arch(confs[<<"buf", "inv1">>])) = Stored("inverter", "rtl")

\* the top frame is a non-toplevel schematic's, at a step of its own
AtSubcircuit(pc) ==
    ~crashed /\ stack # <<>> /\ ret = None /\ Top.pc = pc /\ ~Top.sch.toplevel

\* ".subckt <entity> <port> ..." with the ports in declared order
Header(ent) ==
    <<".subckt ", ent.name>>
    \o Concat([i \in 1..Len(ent.port) |-> <<" ", ent.port[i]>>]) \o <<"\n">>

\* C15: synthesis of a non-toplevel schematic returns the collected child
\* definitions, duplicate-free, followed by exactly one new Definition in
\* last position.  Its text is built in this order: ".subckt <entity>" and
\* the entity's ports in declared order, one reference line per instance,
\* rendered by the instance's child Configuration, and ".ends <entity>".
C15_SubcircuitBlockLast ==
    /\ [](\A a \in Held(get_arch(Root)) :
            (result # None /\ result[1].ok /\ a.kind = "Schematic" /\ ~a.toplevel) =>
                LET defs == result[1].val
                IN  /\ Len(defs) >= 1
                    /\ NoDuplicate(defs)
                    /\ defs[Len(defs)] =
                          DefCode(Header(Ent(Root.ent))
                                  \o RefLines([path |-> <<>>, sch |-> a], Len(a.instances))
                                  \o <<".ends ", Ent(Root.ent).name>>)
                    /\ \A i \in 1..(Len(defs) - 1) :
                          ~IsBlock(defs[i], Ent(Root.ent).name))
    /\ [][/\ (AtSubcircuit("defs") /\ ~InLoop(Top)) =>
                /\ Len(stack') = Len(stack)
                /\ stack'[Len(stack)].defs = Top.defs
                /\ stack'[Len(stack)].res = Header(Ent(confs[Top.path].ent))
          /\ (AtSubcircuit("refs") /\ InLoop(Top) /\ Len(stack') = Len(stack)) =>
                /\ stack'[Len(stack)].defs = Top.defs
                /\ stack'[Len(stack)].i = Top.i + 1
                /\ stack'[Len(stack)].res = Top.res \o
                      Configuration_reference(
                          confs'[Append(Top.path, Current(Top)[1])], Current(Top)[1],
                          Current(Top)[2].genericmap, Current(Top)[2].portmap).val
                      \o <<"\n">>
          /\ (AtSubcircuit("refs") /\ ~InLoop(Top)) =>
                /\ NoDuplicate(Top.defs)
                /\ ret' = Some(Ok(Append(Top.defs,
                              DefCode(Top.res \o
                                  <<".ends ", Ent(confs[Top.path].ent).name>>))))]_vars

\* the inverter's schematic: the two transistor models, then its block
C15_Witness ==
    /\ Done
    /\ Root.ent = "inverter"
    /\ tbl = {"spice"}
    /\ instOrder = "fwd"
    /\ result = Some(Ok(<<
          DefCode(<<".model PMOS">>),
          DefCode(<<".model NMOS ", "spice">>),
          DefCode(<<".subckt ", "inverter", " ", "in", " ", "out", "\n",
                    "m", "mp", " ", "out", " ", "in", " ", "PMOS", " W=", "1u", "\n",
                    "m", "mn", " ", "out", " ", "in", " ", "NMOS", " W=", "2u", "\n",
                    ".ends ", "inverter">>)>>))

\* the frames that hold a child handle: those waiting for the child's
\* definition()
Holding == {k \in 1..Len(stack) : stack[k].pc = "call"}

\* C16: no borrow conflict is reachable.  A cache has a live shared borrow
\* only while the frame of its Configuration waits for a child's
\* definition(); the frame that is about to call get_conf works on a cache
\* with no live borrow, the handle of its previous iteration being
\* released; and every frame works on the cache of a Configuration strictly
\* below those of the frames under it, never on an ancestor's.
C16_NoBorrowConflict ==
    /\ ~panicked
    /\ borrowed = {stack[k].path : k \in Holding}
    /\ (stack # <<>> /\ Top.pc \in {"defs", "refs"}) => Top.path \notin borrowed
    /\ \A k \in 1..Len(stack) :
          /\ Len(stack[k].path) = k - 1
          /\ k < Len(stack) =>
                /\ k \in Holding
                /\ stack[k + 1].path = Append(stack[k].path, Current(stack[k])[1])

\* inside the testbench, the buffer's frame and the root's each hold a
\* handle while an inverter's frame asks its own cache a second time
C16_Witness ==
    /\ Root.ent = "tb"
    /\ Len(stack) = 3
    /\ borrowed = {<<>>, <<"buf">>}
    /\ Top.pc = "defs"
    /\ Top.i = 2
    /\ InLoop(Top)
    /\ ~crashed

\* the entries the caller had placed in the caches: those get_conf did not
\* construct
Placed == (DOMAIN confs \ {<<>>}) \ DOMAIN created

\* the keys of the cache of the Configuration at path p, as paths
CacheKeys(p) == {q \in DOMAIN confs \ {<<>>} : Parent(q) = p}

\* the cache entries for the instances of a schematic under path p
InstanceKeys(p, sch) == {Append(p, inst[1]) : inst \in Range(sch.instances)}

\* C17: a child Configuration the caller placed in a cache is used as it
\* is, explicit architecture included, and is never replaced; get_conf
\* constructs a default one exactly when it adds a key that had no entry;
\* and once a schematic's instances are all visited, as after a successful
\* synthesis, the keys of its Configuration's cache are the placed keys and
\* the schematic's instance names.
C17_PlacedChildKept ==
    /\ [][/\ \A p \in DOMAIN confs : p \in DOMAIN confs' /\ confs'[p] = confs[p]
          /\ DOMAIN created' \ DOMAIN created = DOMAIN confs' \ DOMAIN confs]_vars
    /\ [](\A p \in DOMAIN created : created[p] = 1)
    /\ [](\A k \in 1..Len(stack) :
            (stack[k].pc = "refs" \/ ~InLoop(stack[k])) =>
                CacheKeys(stack[k].path) =
                    (Placed \cap CacheKeys(stack[k].path))
                    \cup InstanceKeys(stack[k].path, stack[k].sch))
    /\ [](\A a \in Held(get_arch(Root)) :
            (Done /\ result[1].ok /\ a.kind = "Schematic") =>
                CacheKeys(<<>>) =
                    (Placed \cap CacheKeys(<<>>)) \cup InstanceKeys(<<>>, a))
    /\ []((stack # <<>> /\ ret # None /\ Top.pc = "call"
              /\ Append(Top.path, Current(Top)[1]) \in Placed /\ Explicit(Callee)) =>
            \A a \in Stored(Callee.ent, Callee.arch[1]) :
                a.kind = "Code" =>
                    /\ \A e \in Selected(a) : ret = Some(Ok(<<e.definition>>))
                    /\ Selected(a) = {} => ret = Some(Err(DialectError)))
    /\ [][(AtReference /\ Append(Top.path, Current(Top)[1]) \in Placed
              /\ Explicit(Callee) /\ Len(stack') = Len(stack)) =>
            \A a \in Stored(Callee.ent, Callee.arch[1]) : \A e \in Selected(a) :
                a.kind = "Code" =>
                    stack'[Len(stack)].res = Top.res \o
                        Filled(e.reference.toks, Current(Top)[1],
                               Current(Top)[2].genericmap, Current(Top)[2].portmap)
                        \o <<"\n">>]_vars

\* the buffer synthesized with a code architecture placed for inv1 while
\* inv2 defaults to the schematic: both in the result, inv1 never built
C17_Witness ==
    /\ Done
    /\ result[1].ok
    /\ Root.ent = "buffer"
    /\ Placed = {<<"inv1">>}
    /\ confs[<<"inv1">>].arch = Some("rtl")
    /\ CacheKeys(<<>>) = {<<"inv1">>, <<"inv2">>}
    /\ <<"inv2">> \in DOMAIN created
    /\ DefCode(<<".model INV">>) \in Range(result[1].val)
    /\ \E i \in 1..Len(result[1].val) : IsBlock(result[1].val[i], "inverter")
    /\ HasLine(result[1].val[Len(result[1].val)].text, "a", "inv1")
    /\ HasLine(result[1].val[Len(result[1].val)].text, "x", "inv2")

====
